---- MODULE Spec2Model ----
(***************************************************************************)
(* ButterflyManager: the time-entry routes of the server and its billing  *)
(* calculator.                                                             *)
(*   apps/server/src/routes/projects.ts   start / resume / stop / PUT /    *)
(*                                        DELETE under /projects/:id       *)
(*   routes/timeEntries.ts (part_004)     PUT / DELETE under /time-entries *)
(*   utils/billing.ts (part_002)          calculateProjectStats,           *)
(*                                        calculateProjectBillableAmount,  *)
(*                                        getEffectiveRatesByPeriod        *)
(*   apps/server/src/routes/invoices.ts   POST / PUT / DELETE /invoices    *)
(*   routes/payments.ts (part_004)        POST /payments                   *)
(*   apps/server/prisma/init.sql          the tables and their foreign keys*)
(* The TimeEntry table is a set of rows; a nullable column holds <<>> for  *)
(* SQL NULL and <<v>> for the value v.  A request body is a function whose *)
(* DOMAIN is the set of keys the JSON carried (a missing key is            *)
(* `undefined` in the handler).  Instants are milliseconds.                *)
(***************************************************************************)
EXTENDS Integers, Sequences, FiniteSets, TLC

VARIABLES
  projects,     \* rows of Project: [id, userId]
  timeEntries,  \* rows of TimeEntry
  nextId,       \* number of TimeEntry ids handed out so far
  now,          \* the server clock (Date.now())
  serverLog,    \* server log: the 'Resumed time entry' lines still current
  explicit,     \* ids whose stored durationMinutes came from a request body
  reqs,         \* in-flight start requests (concurrent specification)
  payments,     \* rows of Payment: [id, userId, invoiceId, projectId, amount, method]
  invoices      \* rows of Invoice: [id, userId, projectId, amount, status]

vars == <<projects, timeEntries, nextId, now, serverLog, explicit, reqs, payments, invoices>>

----------------------------------------------------------------------------
\* Bounds of the model

MaxEntries == 2        \* TimeEntry rows ever created
MaxTicks == 2          \* clock advances
NumRequests == 3       \* concurrent start requests
MaxBackMinutes == 1    \* how far before the epoch a resume may move a start

\* Program constants
MsPerMinute == 1000 * 60

TickMs == MsPerMinute \div 2

Users == {"u1", "u2"}
ProjectIds == {"p1", "p2", "p3"}
EntryIds == 1..MaxEntries
Requests == 1..NumRequests

\* SQL NULL / JSON null, and a present value
Null == <<>>
Some(v) == <<v>>
IsNull(x) == x = <<>>
Val(x) == x[1]

\* Values a client sends
BodyKeys == {"startedAt", "endedAt", "durationMinutes", "note"}
BodyStartedAt == {TickMs}
BodyEndedAt == {Null, Some(2 * TickMs)}
BodyDurations == {Null, Some(0)}
BodyNotes == {"", "n"}

\* the JSON bodies: a subset of the keys, each with one of its values
BodiesOver(keys) ==
  {[k \in ks |-> CASE k = "startedAt" -> s
                  [] k = "endedAt" -> e
                  [] k = "durationMinutes" -> d
                  [] k = "note" -> n] :
     ks \in SUBSET keys, s \in BodyStartedAt, e \in BodyEndedAt,
     d \in BodyDurations, n \in BodyNotes}

StopBodies == BodiesOver({"note"})
UpdateBodies ==
  BodiesOver({"startedAt", "endedAt", "durationMinutes"}) \cup {[note |-> "n"]}

\* who calls: the owner of p1 on its project, and another user on that project
Callers == {<<"u1", "p1">>, <<"u2", "p1">>}

----------------------------------------------------------------------------
\* Math.round(ms / (1000 * 60)): nearest minute, halves towards +infinity
RoundTrunc(ms) == IF ms >= 0 THEN ms \div MsPerMinute ELSE -((-ms) \div MsPerMinute)

Round(ms) == (ms + MsPerMinute \div 2) \div MsPerMinute

\* prisma.project.findFirst({ where: { id, userId } })
ProjectFound(u, p) == \E pr \in projects : pr.id = p /\ pr.userId = u

\* prisma.timeEntry.findFirst({ where: { userId, projectId, endedAt: null } })
ActiveEntryNone(T, u, p) == {}

ActiveEntryAnyState(T, u, p) == {e \in T : e.userId = u /\ e.projectId = p}

ActiveEntryOnAnyProject(T, u, p) == {e \in T : e.userId = u /\ IsNull(e.endedAt)}

ActiveEntryOnThisProject(T, u, p) ==
  {e \in T : e.userId = u /\ e.projectId = p /\ IsNull(e.endedAt)}

\* prisma.timeEntry.findFirst({ where: { id, projectId, userId } })
FindEntryAnyOwner(T, u, p, id) == {e \in T : e.id = id}

FindEntry(T, u, p, id) ==
  {e \in T : e.id = id /\ e.projectId = p /\ e.userId = u}

\* prisma.timeEntry.findFirst({ where: { id, userId } })
FindEntryOfAnyUser(T, u, id) == {e \in T : e.id = id}

FindEntryOfUser(T, u, id) == {e \in T : e.id = id /\ e.userId = u}

\* prisma.timeEntry.update({ where: { id }, data })
ApplyUpdate(e, data) ==
  [f \in DOMAIN e |-> IF f \in DOMAIN data THEN data[f] ELSE e[f]]

UpdateRow(T, id, data) ==
  {IF e.id = id THEN ApplyUpdate(e, data) ELSE e : e \in T}

\* prisma.timeEntry.delete({ where: { id } })
DeleteRow(T, id) == {e \in T : e.id # id}

\* note || null
OrNullIdentity(body, k) == IF k \in DOMAIN body THEN Some(body[k]) ELSE Null

OrNull(body, k) ==
  IF k \in DOMAIN body /\ body[k] # "" THEN Some(body[k]) ELSE Null

\* what a handler did: the status of its response and the table it left
Reply(status, T) == [status |-> status, timeEntries |-> T]

----------------------------------------------------------------------------
\* The handlers, as functions of the table T and the clock t

\* prisma.timeEntry.create({ data: { projectId, userId, startedAt: new Date() } })
NewEntry(newId, u, p, t) ==
  [id |-> newId, projectId |-> p, userId |-> u, startedAt |-> t,
   endedAt |-> Null, durationMinutes |-> Null, note |-> Null]

\* POST /:projectId/time-entries/start
StartResult(T, t, newId, u, p) ==
  IF ~ProjectFound(u, p) THEN Reply(404, T)
  ELSE IF ActiveEntryOnThisProject(T, u, p) # {} THEN Reply(400, T)
  ELSE Reply(201, T \cup {NewEntry(newId, u, p, t)})

\* existingEntry.durationMinutes || 0
PreviousDurationMinutes(e) ==
  IF IsNull(e.durationMinutes) THEN 0 ELSE Val(e.durationMinutes)

\* new Date(Date.now() - previousDurationMinutes * 60 * 1000)
ResumeStartNow(e, t) == t

ResumeStart(e, t) == t - PreviousDurationMinutes(e) * 60 * 1000

\* POST /:projectId/time-entries/:timeEntryId/resume
ResumeResult(T, t, u, p, id) ==
  IF ~ProjectFound(u, p) THEN Reply(404, T)
  ELSE IF ActiveEntryOnThisProject(T, u, p) # {} THEN Reply(400, T)
  ELSE IF {e \in FindEntry(T, u, p, id) : ~IsNull(e.endedAt)} = {} THEN Reply(404, T)
  ELSE LET existingEntry == CHOOSE e \in FindEntry(T, u, p, id) : ~IsNull(e.endedAt)
       IN Reply(200, UpdateRow(T, id,
            [endedAt |-> Null,
             startedAt |-> ResumeStart(existingEntry, t),
             durationMinutes |-> Null]))

\* POST /:projectId/time-entries/:timeEntryId/stop
StopResultAnyState(T, t, u, p, id, body) ==
  IF FindEntry(T, u, p, id) = {} THEN Reply(404, T)
  ELSE LET timeEntry == CHOOSE e \in FindEntry(T, u, p, id) : TRUE
       IN Reply(200, UpdateRow(T, id,
            [endedAt |-> Some(t),
             durationMinutes |-> Some(Round(t - timeEntry.startedAt)),
             note |-> OrNull(body, "note")]))

StopResultRejectsEmpty(T, t, u, p, id, body) ==
  IF {e \in FindEntry(T, u, p, id) : IsNull(e.endedAt)} = {} THEN Reply(404, T)
  ELSE LET timeEntry == CHOOSE e \in FindEntry(T, u, p, id) : IsNull(e.endedAt)
       IN IF Round(t - timeEntry.startedAt) <= 0 THEN Reply(400, T)
          ELSE Reply(200, UpdateRow(T, id,
                 [endedAt |-> Some(t),
                  durationMinutes |-> Some(Round(t - timeEntry.startedAt)),
                  note |-> OrNull(body, "note")]))

StopResult(T, t, u, p, id, body) ==
  IF {e \in FindEntry(T, u, p, id) : IsNull(e.endedAt)} = {} THEN Reply(404, T)
  ELSE LET timeEntry == CHOOSE e \in FindEntry(T, u, p, id) : IsNull(e.endedAt)
       IN Reply(200, UpdateRow(T, id,
            [endedAt |-> Some(t),
             durationMinutes |-> Some(Round(t - timeEntry.startedAt)),
             note |-> OrNull(body, "note")]))

\* PUT /:projectId/time-entries/:timeEntryId : the data handed to prisma
ProjectUpdateData(timeEntry, body) ==
  LET newStartedAt ==
        IF "startedAt" \in DOMAIN body THEN body.startedAt ELSE timeEntry.startedAt
      newEndedAt ==
        IF "endedAt" \in DOMAIN body THEN body.endedAt ELSE timeEntry.endedAt
  IN [k \in DOMAIN body \cup {"durationMinutes"} |->
        CASE k = "startedAt" -> body.startedAt
          [] k = "endedAt" -> body.endedAt
          [] k = "note" -> OrNull(body, "note")
          [] k = "durationMinutes" ->
               IF "durationMinutes" \in DOMAIN body THEN body.durationMinutes
               ELSE IF ~IsNull(newEndedAt)
                    THEN Some(Round(Val(newEndedAt) - newStartedAt))
                    ELSE Null]

\* PUT /:projectId/time-entries/:timeEntryId
UpdateResult(T, u, p, id, body) ==
  IF ~ProjectFound(u, p) THEN Reply(404, T)
  ELSE IF FindEntry(T, u, p, id) = {} THEN Reply(404, T)
  ELSE LET timeEntry == CHOOSE e \in FindEntry(T, u, p, id) : TRUE
       IN Reply(200, UpdateRow(T, id, ProjectUpdateData(timeEntry, body)))

\* DELETE /:projectId/time-entries/:timeEntryId
DeleteResult(T, u, p, id) ==
  IF ~ProjectFound(u, p) THEN Reply(404, T)
  ELSE IF FindEntry(T, u, p, id) = {} THEN Reply(404, T)
  ELSE Reply(200, DeleteRow(T, id))

\* updateTimeEntrySchema.parse(req.body): optional strings, unknown keys stripped
SchemaRejects(body) == "endedAt" \in DOMAIN body /\ IsNull(body.endedAt)

\* timeEntryRouter PUT /:timeEntryId : the resulting start and end
RouterStartedAt(timeEntry, body) ==
  IF "startedAt" \in DOMAIN body THEN body.startedAt ELSE timeEntry.startedAt

RouterEndedAt(timeEntry, body) ==
  IF "endedAt" \in DOMAIN body THEN body.endedAt ELSE timeEntry.endedAt

RouterUpdateData(timeEntry, body) ==
  LET endedAt == RouterEndedAt(timeEntry, body)
  IN [k \in (DOMAIN body \ {"durationMinutes"}) \cup
            (IF IsNull(endedAt) THEN {} ELSE {"durationMinutes"}) |->
        CASE k = "startedAt" -> body.startedAt
          [] k = "endedAt" -> body.endedAt
          [] k = "note" -> Some(body.note)
          [] k = "durationMinutes" ->
               Some(Round(Val(endedAt) - RouterStartedAt(timeEntry, body)))]

\* timeEntryRouter PUT /:timeEntryId
RouterUpdateResult(T, u, id, body) ==
  IF SchemaRejects(body) THEN Reply(400, T)
  ELSE IF FindEntryOfUser(T, u, id) = {} THEN Reply(404, T)
  ELSE LET timeEntry == CHOOSE e \in FindEntryOfUser(T, u, id) : TRUE
           endedAt == RouterEndedAt(timeEntry, body)
       IN IF ~IsNull(endedAt) /\ Val(endedAt) <= RouterStartedAt(timeEntry, body)
          THEN Reply(400, T)
          ELSE Reply(200, UpdateRow(T, id, RouterUpdateData(timeEntry, body)))

\* timeEntryRouter DELETE /:timeEntryId
RouterDeleteResult(T, u, id) ==
  IF FindEntryOfUser(T, u, id) = {} THEN Reply(404, T)
  ELSE Reply(200, DeleteRow(T, id))

\* GET /:projectId/time-entries
GetTimeEntriesResult(T, u, p) ==
  IF ~ProjectFound(u, p) THEN Reply(404, T) ELSE Reply(200, T)

\* GET /time-entries/active : findMany({ where: { userId, endedAt: null } })
GetActiveResult(T, u) == {e \in T : e.userId = u /\ IsNull(e.endedAt)}

----------------------------------------------------------------------------
\* The message of the AppError a handler throws, "" when it throws none

\* POST /:projectId/time-entries/:timeEntryId/resume
ResumeError(T, u, p, id) ==
  IF ~ProjectFound(u, p) THEN "Project not found"
  ELSE IF ActiveEntryOnThisProject(T, u, p) # {}
  THEN "You already have a timer running on this project."
  ELSE IF {e \in FindEntry(T, u, p, id) : ~IsNull(e.endedAt)} = {}
  THEN "Time entry not found or still running"
  ELSE ""

\* POST /:projectId/time-entries/:timeEntryId/stop
StopError(T, u, p, id) ==
  IF {e \in FindEntry(T, u, p, id) : IsNull(e.endedAt)} = {}
  THEN "Active time entry not found" ELSE ""

\* PUT and DELETE /:projectId/time-entries/:timeEntryId
EntryError(T, u, p, id) ==
  IF ~ProjectFound(u, p) THEN "Project not found"
  ELSE IF FindEntry(T, u, p, id) = {} THEN "Time entry not found"
  ELSE ""

\* timeEntryRouter PUT /:timeEntryId
RouterUpdateError(T, u, id, body) ==
  IF SchemaRejects(body) THEN "ZodError"
  ELSE IF FindEntryOfUser(T, u, id) = {} THEN "Time entry not found"
  ELSE LET timeEntry == CHOOSE e \in FindEntryOfUser(T, u, id) : TRUE
           endedAt == RouterEndedAt(timeEntry, body)
       IN IF ~IsNull(endedAt) /\ Val(endedAt) <= RouterStartedAt(timeEntry, body)
          THEN "End time must be after start time"
          ELSE ""

\* timeEntryRouter DELETE /:timeEntryId
RouterDeleteError(T, u, id) ==
  IF FindEntryOfUser(T, u, id) = {} THEN "Time entry not found" ELSE ""

----------------------------------------------------------------------------
\* The server: each request runs its handler on the stored table

Init ==
  /\ projects = {[id |-> "p1", userId |-> "u1"], [id |-> "p2", userId |-> "u2"],
                 [id |-> "p3", userId |-> "u1"]}
  /\ timeEntries = {}
  /\ nextId = 0
  /\ now = 0
  /\ serverLog = {}
  /\ explicit = {}
  /\ reqs = [r \in Requests |-> [pc |-> "new", status |-> 0]]
  /\ payments = {}
  /\ invoices = {}

\* the clock advances
Tick ==
  /\ now < MaxTicks * TickMs
  /\ now' = now + TickMs
  /\ UNCHANGED <<projects, timeEntries, nextId, serverLog, explicit, reqs, payments, invoices>>

\* the rows stay within the instants the model covers
InRange(T) == \A e \in T : e.startedAt >= -(MaxBackMinutes * MsPerMinute)

\* a 'Resumed time entry' line stops being current once its row is written
ForgetLog(id) == {l \in serverLog : l.id # id}

StartTimeEntry(u, p) ==
  LET r == StartResult(timeEntries, now, nextId + 1, u, p)
  IN /\ r.status = 201 => nextId < MaxEntries
     /\ timeEntries' = r.timeEntries
     /\ InRange(r.timeEntries)
     /\ nextId' = IF r.status = 201 THEN nextId + 1 ELSE nextId
     /\ UNCHANGED <<projects, now, serverLog, explicit, reqs, payments, invoices>>

ResumeTimeEntry(u, p, id) ==
  LET r == ResumeResult(timeEntries, now, u, p, id)
  IN /\ timeEntries' = r.timeEntries
     /\ InRange(r.timeEntries)
     /\ serverLog' =
          IF r.status = 200
          THEN LET e == CHOOSE x \in timeEntries : x.id = id
               IN ForgetLog(id) \cup
                    {[id |-> id, at |-> now,
                      previousDurationMinutes |-> PreviousDurationMinutes(e)]}
          ELSE serverLog
     /\ explicit' = IF r.status = 200 THEN explicit \ {id} ELSE explicit
     /\ UNCHANGED <<projects, nextId, now, reqs, payments, invoices>>

StopTimeEntry(u, p, id, body) ==
  LET r == StopResult(timeEntries, now, u, p, id, body)
  IN /\ timeEntries' = r.timeEntries
     /\ InRange(r.timeEntries)
     /\ explicit' = IF r.status = 200 THEN explicit \ {id} ELSE explicit
     /\ UNCHANGED <<projects, nextId, now, serverLog, reqs, payments, invoices>>

UpdateTimeEntry(u, p, id, body) ==
  LET r == UpdateResult(timeEntries, u, p, id, body)
  IN /\ timeEntries' = r.timeEntries
     /\ InRange(r.timeEntries)
     /\ explicit' = IF r.status # 200 THEN explicit
                    ELSE IF "durationMinutes" \in DOMAIN body
                    THEN explicit \cup {id} ELSE explicit \ {id}
     /\ serverLog' = IF r.status = 200 THEN ForgetLog(id) ELSE serverLog
     /\ UNCHANGED <<projects, nextId, now, reqs, payments, invoices>>

DeleteTimeEntry(u, p, id) ==
  LET r == DeleteResult(timeEntries, u, p, id)
  IN /\ timeEntries' = r.timeEntries
     /\ InRange(r.timeEntries)
     /\ explicit' = IF r.status = 200 THEN explicit \ {id} ELSE explicit
     /\ serverLog' = IF r.status = 200 THEN ForgetLog(id) ELSE serverLog
     /\ UNCHANGED <<projects, nextId, now, reqs, payments, invoices>>

RouterUpdateTimeEntry(u, id, body) ==
  LET r == RouterUpdateResult(timeEntries, u, id, body)
  IN /\ timeEntries' = r.timeEntries
     /\ InRange(r.timeEntries)
     /\ explicit' =
          IF r.status = 200 /\ \E e \in r.timeEntries : e.id = id /\ ~IsNull(e.endedAt)
          THEN explicit \ {id} ELSE explicit
     /\ serverLog' = IF r.status = 200 THEN ForgetLog(id) ELSE serverLog
     /\ UNCHANGED <<projects, nextId, now, reqs, payments, invoices>>

RouterDeleteTimeEntry(u, id) ==
  LET r == RouterDeleteResult(timeEntries, u, id)
  IN /\ timeEntries' = r.timeEntries
     /\ InRange(r.timeEntries)
     /\ explicit' = IF r.status = 200 THEN explicit \ {id} ELSE explicit
     /\ serverLog' = IF r.status = 200 THEN ForgetLog(id) ELSE serverLog
     /\ UNCHANGED <<projects, nextId, now, reqs, payments, invoices>>

GetTimeEntries(u, p) ==
  /\ timeEntries' = GetTimeEntriesResult(timeEntries, u, p).timeEntries
  /\ UNCHANGED <<projects, nextId, now, serverLog, explicit, reqs, payments, invoices>>

Next ==
  \/ Tick
  \/ \E c \in Callers : StartTimeEntry(c[1], c[2])
  \/ \E c \in Callers, id \in EntryIds : ResumeTimeEntry(c[1], c[2], id)
  \/ \E c \in Callers, id \in EntryIds, body \in StopBodies :
       StopTimeEntry(c[1], c[2], id, body)
  \/ \E c \in Callers, id \in EntryIds, body \in UpdateBodies :
       UpdateTimeEntry(c[1], c[2], id, body)
  \/ \E c \in Callers, id \in EntryIds : DeleteTimeEntry(c[1], c[2], id)
  \/ \E u \in Users, id \in EntryIds, body \in UpdateBodies :
       RouterUpdateTimeEntry(u, id, body)
  \/ \E u \in Users, id \in EntryIds : RouterDeleteTimeEntry(u, id)
  \/ \E c \in Callers : GetTimeEntries(c[1], c[2])

Spec == Init /\ [][Next]_vars

----------------------------------------------------------------------------
\* Concurrent start requests of one user on one project.  The handler awaits
\* its lookups and then its insert, so other requests run in between.

RequestUser == "u1"
RequestProject == "p1"

\* the two findFirst of the handler: the project, then the running entry
StartLookup(r) ==
  /\ reqs[r].pc = "new"
  /\ reqs' = [reqs EXCEPT ![r] =
       IF ~ProjectFound(RequestUser, RequestProject)
       THEN [pc |-> "done", status |-> 404]
       ELSE IF ActiveEntryOnThisProject(timeEntries, RequestUser, RequestProject) # {}
       THEN [pc |-> "done", status |-> 400]
       ELSE [pc |-> "checked", status |-> 0]]
  /\ UNCHANGED <<projects, timeEntries, nextId, now, serverLog, explicit, payments, invoices>>

\* prisma.timeEntry.create and the 201
StartInsert(r) ==
  /\ reqs[r].pc = "checked"
  /\ timeEntries' = timeEntries \cup
       {NewEntry(nextId + 1, RequestUser, RequestProject, now)}
  /\ nextId' = nextId + 1
  /\ reqs' = [reqs EXCEPT ![r] = [pc |-> "done", status |-> 201]]
  /\ UNCHANGED <<projects, now, serverLog, explicit, payments, invoices>>

NextConcurrent ==
  \/ Tick
  \/ \E r \in Requests : StartLookup(r)
  \/ \E r \in Requests : StartInsert(r)

SpecConcurrent == Init /\ [][NextConcurrent]_vars

----------------------------------------------------------------------------
\* Billing: utils/billing.ts (part_002) and the project routes that feed it.
\* Amounts (DECIMAL(12, 2)) and every number the calculator returns with two
\* decimals are whole hundredths; the arithmetic is exact.  The model's
\* instant 0 is 2024-01-22T00:00:00Z, a Monday, and the server's time zone is
\* UTC.

MaxLongSteps == 2      \* long advances of the clock
MaxShortSteps == 2     \* short advances of the clock within a long one

MsPerDay == 24 * 60 * MsPerMinute
ShortStep == 40 * MsPerMinute
LongStep == 8 * MsPerDay

BillingModes == {"FIXED_TOTAL", "RECURRING_PERIOD", "HOURLY"}
PeriodTypes == {"MONTHLY", "WEEKLY", "CUSTOM"}
BodyAmounts == {Null, Some(0), Some(10000), Some(120000)}

\* the JSON bodies of PUT /projects/:projectId: one billing field each
ProjectBodies ==
  {[billingMode |-> m] : m \in BillingModes} \cup
  {[fixedTotalAmount |-> a] : a \in BodyAmounts \ {Some(120000)}} \cup
  {[recurringAmount |-> a] : a \in BodyAmounts \ {Some(10000)}} \cup
  {[recurringPeriodType |-> t] : t \in {Null} \cup {Some(x) : x \in PeriodTypes}} \cup
  {[hourlyRate |-> a] : a \in BodyAmounts \ {Some(120000)}}

\* data.x ? (data.x as number) : null
AmountOrNull(body, k) ==
  IF k \in DOMAIN body /\ ~IsNull(body[k]) /\ Val(body[k]) # 0 THEN body[k] ELSE Null

\* (data.recurringPeriodType as any) || null
PeriodTypeOrNull(body) ==
  IF "recurringPeriodType" \in DOMAIN body THEN body.recurringPeriodType ELSE Null

\* POST /projects : prisma.project.create({ data })
CreateProjectData(body, newId, u) ==
  [id |-> newId, userId |-> u,
   billingMode |-> body.billingMode,
   fixedTotalAmount |-> AmountOrNull(body, "fixedTotalAmount"),
   recurringAmount |-> AmountOrNull(body, "recurringAmount"),
   recurringPeriodType |-> PeriodTypeOrNull(body),
   hourlyRate |-> AmountOrNull(body, "hourlyRate")]

\* PUT /projects/:projectId : updateData
UpdateProjectData(body) ==
  [k \in DOMAIN body |->
     CASE k = "billingMode" -> body.billingMode
       [] k = "recurringPeriodType" -> PeriodTypeOrNull(body)
       [] OTHER -> AmountOrNull(body, k)]

\* PUT /projects/:projectId
UpdateProjectResult(P, u, p, body) ==
  IF ~\E pr \in P : pr.id = p /\ pr.userId = u
  THEN [status |-> 404, projects |-> P]
  ELSE [status |-> 200,
        projects |-> {IF pr.id = p THEN ApplyUpdate(pr, UpdateProjectData(body))
                      ELSE pr : pr \in P}]

\* the calendar of an instant (UTC)
DayOf(t) == t \div MsPerDay

\* Date.getDay(): 0 is Sunday
GetDay(t) == (1 + DayOf(t)) % 7

\* `${date.getFullYear()}-${String(date.getMonth() + 1).padStart(2, '0')}`
MonthKey(t) ==
  LET d == 22 + DayOf(t)
  IN IF d < 1 THEN "2023-12"
     ELSE IF d <= 31 THEN "2024-01"
     ELSE IF d <= 31 + 29 THEN "2024-02"
     ELSE "2024-03"

\* weekStart.setDate(date.getDate() - date.getDay()); the date of weekStart,
\* as the number of its day
WeekStartKey(t) == DayOf(t) - GetDay(t)

\* the period key of an entry
PeriodKeyEnd(entry, periodType) ==
  LET t == IF IsNull(entry.endedAt) THEN entry.startedAt ELSE Val(entry.endedAt)
  IN IF periodType = Some("WEEKLY") THEN <<"week", WeekStartKey(t)>>
     ELSE <<"month", MonthKey(t)>>

PeriodKey(entry, periodType) ==
  IF periodType = Some("WEEKLY") THEN <<"week", WeekStartKey(entry.startedAt)>>
  ELSE <<"month", MonthKey(entry.startedAt)>>

\* countBillingPeriods(timeEntries, periodType)
CountBillingPeriods(entries, periodType) ==
  IF entries = {} THEN 0
  ELSE Cardinality({PeriodKey(e, periodType) : e \in entries})

\* prisma.timeEntry.findMany({ where: { projectId, endedAt: { not: null },
\*                                      durationMinutes: { not: null, gt: 0 } } })
EntriesWithDuration(T, project) ==
  {e \in T : e.projectId = project.id /\ ~IsNull(e.durationMinutes)}

CompletedEntries(T, project) ==
  {e \in T : /\ e.projectId = project.id
             /\ ~IsNull(e.endedAt)
             /\ ~IsNull(e.durationMinutes) /\ Val(e.durationMinutes) > 0}

\* timeEntries.reduce((sum, entry) => sum + (entry.durationMinutes || 0), 0)
RECURSIVE TotalMinutes(_)
TotalMinutes(entries) ==
  IF entries = {} THEN 0
  ELSE LET e == CHOOSE x \in entries : TRUE
       IN PreviousDurationMinutes(e) + TotalMinutes(entries \ {e})

\* parseFloat(`${hours}.${String(minutes).padStart(2, '0')}`), in hundredths
HoursDotMinutes(totalMinutes) ==
  LET hours == totalMinutes \div 60
      minutes == totalMinutes % 60
  IN 100 * hours + minutes

\* prisma.payment.findMany({ where: { projectId } }) and the sum of the amounts
RECURSIVE TotalIncome(_, _)
TotalIncome(P, project) ==
  LET mine == {x \in P : x.projectId = Some(project.id)}
  IN IF mine = {} THEN 0
     ELSE LET x == CHOOSE y \in mine : TRUE
          IN x.amount + TotalIncome(P \ {x}, project)

\* Math.round((amount / totalHours) * 100) / 100, in hundredths
RoundedRate(amount, totalHours) == (200 * amount + totalHours) \div (2 * totalHours)

\* case 'FIXED_TOTAL'
FixedTotalRateOrHourly(project, totalHours) ==
  IF totalHours > 0 /\ ~IsNull(project.fixedTotalAmount)
  THEN Some(RoundedRate(Val(project.fixedTotalAmount), totalHours))
  ELSE project.hourlyRate

FixedTotalRate(project, totalHours) ==
  IF totalHours > 0 /\ ~IsNull(project.fixedTotalAmount)
  THEN Some(RoundedRate(Val(project.fixedTotalAmount), totalHours))
  ELSE Null

\* case 'RECURRING_PERIOD'
RecurringRate(project, entries, totalHours) ==
  IF totalHours > 0 /\ ~IsNull(project.recurringAmount)
  THEN LET periodCount == CountBillingPeriods(entries, project.recurringPeriodType)
       IN IF periodCount > 0
          THEN Some(RoundedRate(Val(project.recurringAmount) * periodCount, totalHours))
          ELSE Null
  ELSE Null

\* case 'HOURLY'
HourlyRateOverHours(project, totalHours) ==
  IF totalHours > 0 /\ ~IsNull(project.hourlyRate) THEN project.hourlyRate ELSE Null

HourlyRate(project, totalHours) ==
  IF ~IsNull(project.hourlyRate) THEN project.hourlyRate ELSE Null

\* calculateProjectStats(project)
CalculateProjectStats(project, T, P) ==
  LET entries == CompletedEntries(T, project)
      totalHours == HoursDotMinutes(TotalMinutes(entries))
  IN [totalHours |-> totalHours,
      totalIncome |-> TotalIncome(P, project),
      effectiveHourlyRate |->
        CASE project.billingMode = "FIXED_TOTAL" -> FixedTotalRate(project, totalHours)
          [] project.billingMode = "RECURRING_PERIOD" ->
               RecurringRate(project, entries, totalHours)
          [] project.billingMode = "HOURLY" -> HourlyRate(project, totalHours)]

\* GET /projects/:projectId
GetProjectResult(Pr, T, P, u, p) ==
  IF ~\E pr \in Pr : pr.id = p /\ pr.userId = u
  THEN [status |-> 404, data |-> Null]
  ELSE LET project == CHOOSE pr \in Pr : pr.id = p /\ pr.userId = u
       IN [status |-> 200, data |-> Some(CalculateProjectStats(project, T, P))]

\* calculateProjectBillableAmount: prisma.timeEntry.findMany({ where: {
\*   projectId: project.id, durationMinutes: { not: null } } }); the same
\* filter selects the entries of getEffectiveRatesByPeriod
BillableEntriesCompleted(T, project) ==
  {e \in T : /\ e.projectId = project.id /\ ~IsNull(e.endedAt)
             /\ ~IsNull(e.durationMinutes) /\ Val(e.durationMinutes) > 0}

BillableEntries(T, project) ==
  {e \in T : e.projectId = project.id /\ ~IsNull(e.durationMinutes)}

\* Number(x) || 0
NumberOrZero(x) == IF IsNull(x) THEN 0 ELSE Val(x)

\* calculateProjectBillableAmount(project).  The HOURLY amount is not rounded:
\* the amount is an exact number of sixtieths of a hundredth.
BillableAmountLessIncome(project, T, P) ==
  LET entries == BillableEntries(T, project)
  IN CASE project.billingMode = "FIXED_TOTAL" ->
            60 * (NumberOrZero(project.fixedTotalAmount) - TotalIncome(P, project))
       [] project.billingMode = "RECURRING_PERIOD" ->
            60 * NumberOrZero(project.recurringAmount)
               * CountBillingPeriods(entries, project.recurringPeriodType)
       [] project.billingMode = "HOURLY" ->
            NumberOrZero(project.hourlyRate) * TotalMinutes(entries)
               - 60 * TotalIncome(P, project)
       [] OTHER -> 0

CalculateProjectBillableAmount(project, T, P) ==
  LET entries == BillableEntries(T, project)
  IN CASE project.billingMode = "FIXED_TOTAL" ->
            60 * NumberOrZero(project.fixedTotalAmount)
       [] project.billingMode = "RECURRING_PERIOD" ->
            60 * NumberOrZero(project.recurringAmount)
               * CountBillingPeriods(entries, project.recurringPeriodType)
       [] project.billingMode = "HOURLY" ->
            NumberOrZero(project.hourlyRate) * TotalMinutes(entries)
       [] OTHER -> 0

\* the month keys of the model's calendar, in the order of their characters
MonthKeys == <<"2023-12", "2024-01", "2024-02", "2024-03">>

\* the place of a period key among the keys of its kind: a week key is the ISO
\* date of a day, and ISO dates are ordered as their days are
KeyRank(k) ==
  IF k[1] = "week" THEN k[2] ELSE CHOOSE i \in DOMAIN MonthKeys : MonthKeys[i] = k[2]

\* a.localeCompare(b): negative, zero or positive
LocaleCompareReversed(a, b) ==
  IF KeyRank(a) < KeyRank(b) THEN 1 ELSE IF KeyRank(a) = KeyRank(b) THEN 0 ELSE -1

LocaleCompare(a, b) ==
  IF KeyRank(a) < KeyRank(b) THEN -1 ELSE IF KeyRank(a) = KeyRank(b) THEN 0 ELSE 1

\* .sort((a, b) => a.period.localeCompare(b.period)), on the distinct keys
RECURSIVE SortPeriods(_)
SortPeriods(keys) ==
  IF keys = {} THEN <<>>
  ELSE LET first == CHOOSE k \in keys : \A o \in keys : LocaleCompare(k, o) <= 0
       IN <<first>> \o SortPeriods(keys \ {first})

\* Math.round((minutes / 60) * 100) / 100, in hundredths (minutes >= 0)
DecimalHours(minutes) == (10 * minutes + 3) \div 6

\* one element of the list getEffectiveRatesByPeriod returns
PeriodRate(project, entries, period) ==
  LET minutes == TotalMinutes({e \in entries :
                                 PeriodKey(e, project.recurringPeriodType) = period})
      hours == DecimalHours(minutes)
  IN [period |-> period, hours |-> hours,
      rate |-> IF hours > 0
               THEN RoundedRate(NumberOrZero(project.recurringAmount), hours)
               ELSE 0]

\* getEffectiveRatesByPeriod(projectId)
GetEffectiveRatesByPeriod(Pr, T, p) ==
  IF ~\E pr \in Pr : pr.id = p /\ pr.billingMode = "RECURRING_PERIOD"
  THEN <<>>
  ELSE LET project == CHOOSE pr \in Pr : pr.id = p
           entries == BillableEntries(T, project)
           sorted == SortPeriods({PeriodKey(e, project.recurringPeriodType) :
                                    e \in entries})
       IN [i \in DOMAIN sorted |-> PeriodRate(project, entries, sorted[i])]

\* the Payment rows the project may have
PaymentTables ==
  {{}, {[id |-> 1, userId |-> "u1", invoiceId |-> 1, projectId |-> Some("p1"),
         amount |-> 2500, method |-> Null],
        [id |-> 2, userId |-> "u1", invoiceId |-> 1, projectId |-> Null,
         amount |-> 700, method |-> Null]}}

\* the Invoice rows those payments belong to
InvoicesOf(P) ==
  IF P = {} THEN {}
  ELSE {[id |-> 1, userId |-> "u1", projectId |-> Null, amount |-> 5000,
         status |-> "SENT"]}

InitBilling ==
  /\ \E m \in BillingModes :
       projects = {CreateProjectData([billingMode |-> m], "p1", "u1")}
  /\ timeEntries = {}
  /\ nextId = 0
  /\ now = 0
  /\ serverLog = {}
  /\ explicit = {}
  /\ reqs = [r \in Requests |-> [pc |-> "new", status |-> 0]]
  /\ payments \in PaymentTables
  /\ invoices = InvoicesOf(payments)

\* the clock advances by forty minutes or by eight days
Advance(d) ==
  /\ d = ShortStep => (now % LongStep) \div ShortStep < MaxShortSteps
  /\ d = LongStep => now \div LongStep < MaxLongSteps
  /\ now' = now + d
  /\ UNCHANGED <<projects, timeEntries, nextId, serverLog, explicit, reqs, payments, invoices>>

UpdateProject(u, p, body) ==
  /\ projects' = UpdateProjectResult(projects, u, p, body).projects
  /\ UNCHANGED <<timeEntries, nextId, now, serverLog, explicit, reqs, payments, invoices>>

GetProject(u, p) ==
  /\ GetProjectResult(projects, timeEntries, payments, u, p).status \in {200, 404}
  /\ UNCHANGED vars

\* a call of calculateProjectBillableAmount that stores what it computed
ComputeBillableAmountStoring(p) ==
  /\ \E pr \in projects : pr.id = p
  /\ projects' = {IF pr.id = p
                  THEN [pr EXCEPT !.fixedTotalAmount =
                          Some(CalculateProjectBillableAmount(pr, timeEntries, payments))]
                  ELSE pr : pr \in projects}
  /\ UNCHANGED <<timeEntries, nextId, now, serverLog, explicit, reqs, payments, invoices>>

\* a call of calculateProjectBillableAmount(project) with a stored project
ComputeBillableAmount(p) ==
  /\ \E pr \in projects :
       pr.id = p /\ CalculateProjectBillableAmount(pr, timeEntries, payments) >= 0
  /\ UNCHANGED vars

\* a call of getEffectiveRatesByPeriod(projectId)
ComputePeriodRates(p) ==
  /\ Len(GetEffectiveRatesByPeriod(projects, timeEntries, p)) >= 0
  /\ UNCHANGED vars

NextBilling ==
  \/ \E d \in {ShortStep, LongStep} : Advance(d)
  \/ StartTimeEntry("u1", "p1")
  \/ \E id \in EntryIds : StopTimeEntry("u1", "p1", id, [k \in {} |-> ""])
  \/ \E id \in EntryIds : DeleteTimeEntry("u1", "p1", id)
  \/ \E u \in Users, body \in ProjectBodies : UpdateProject(u, "p1", body)
  \/ \E u \in Users : GetProject(u, "p1")
  \/ ComputeBillableAmount("p1")
  \/ \E p \in {"p1", "p2"} : ComputePeriodRates(p)

SpecBilling == InitBilling /\ [][NextBilling]_vars

----------------------------------------------------------------------------
\* Several users and projects: each user tracks time on the projects they
\* own, u1 on two of them.

ScopeCallers == {<<"u1", "p1">>, <<"u1", "p3">>, <<"u2", "p2">>}
ScopeUpdateBodies == {[endedAt |-> Null], [endedAt |-> Some(2 * TickMs)]}
ScopeRouterBodies == {[endedAt |-> Some(2 * TickMs)], [note |-> "n"]}

GetActive(u) ==
  /\ GetActiveResult(timeEntries, u) \subseteq timeEntries
  /\ UNCHANGED vars

NextScopes ==
  \/ Tick
  \/ \E c \in ScopeCallers : StartTimeEntry(c[1], c[2])
  \/ \E c \in ScopeCallers, id \in EntryIds : ResumeTimeEntry(c[1], c[2], id)
  \/ \E c \in ScopeCallers, id \in EntryIds :
       StopTimeEntry(c[1], c[2], id, [k \in {} |-> ""])
  \/ \E c \in ScopeCallers, id \in EntryIds, body \in ScopeUpdateBodies :
       UpdateTimeEntry(c[1], c[2], id, body)
  \/ \E c \in ScopeCallers, id \in EntryIds : DeleteTimeEntry(c[1], c[2], id)
  \/ \E u \in Users, id \in EntryIds, body \in ScopeRouterBodies :
       RouterUpdateTimeEntry(u, id, body)
  \/ \E u \in Users, id \in EntryIds : RouterDeleteTimeEntry(u, id)
  \/ \E u \in Users : GetActive(u)

SpecScopes == Init /\ [][NextScopes]_vars

----------------------------------------------------------------------------
\* Invoices and payments: routes/invoices.ts, the payment router (part_004)
\* and DELETE /projects/:projectId with the foreign keys of init.sql.

MaxInvoices == 2       \* Invoice rows ever present at once
MaxPayments == 2       \* Payment rows ever present at once

InvoiceIds == 1..MaxInvoices
InvoiceStatuses == {"DRAFT", "SENT", "PAID", "CANCELLED"}
InvoiceAmounts == {5000, 8000}
PaymentAmounts == {3000, 5000}

\* the JSON bodies of POST /invoices, PUT /invoices/:invoiceId and POST /payments
CreateInvoiceBodies ==
  {[amount |-> a] : a \in InvoiceAmounts} \cup
  {[amount |-> a, projectId |-> Some(p)] : a \in InvoiceAmounts, p \in {"p1", "p2"}} \cup
  {[amount |-> a, status |-> "SENT"] : a \in InvoiceAmounts}

UpdateInvoiceBodies ==
  {[status |-> st] : st \in InvoiceStatuses} \cup
  {[amount |-> a] : a \in InvoiceAmounts} \cup
  {[status |-> "PAID", amount |-> a] : a \in InvoiceAmounts} \cup
  {[projectId |-> Some("p2")]}

CreatePaymentBodies ==
  {[invoiceId |-> i, amount |-> a] : i \in InvoiceIds, a \in PaymentAmounts} \cup
  {[invoiceId |-> i, amount |-> a, projectId |-> Some("p2")] :
     i \in InvoiceIds, a \in PaymentAmounts}

\* an identifier no row of the table carries (the database draws a fresh uuid)
FreshId(rows) == CHOOSE i \in 1..(Cardinality(rows) + 1) : \A x \in rows : x.id # i

\* if (data.projectId) { findFirst({ id: data.projectId, userId }) ; !project }
ForeignProject(Pr, u, body) ==
  /\ "projectId" \in DOMAIN body
  /\ ~IsNull(body.projectId)
  /\ ~\E pr \in Pr : pr.id = Val(body.projectId) /\ pr.userId = u

\* (data.projectId as string) || null
ProjectIdOrNull(body) == IF "projectId" \in DOMAIN body THEN body.projectId ELSE Null

\* POST /invoices
CreateInvoiceResult(I, Pr, u, body, newId) ==
  IF ForeignProject(Pr, u, body) THEN [status |-> 404, invoices |-> I]
  ELSE [status |-> 201,
        invoices |-> I \cup {[id |-> newId, userId |-> u,
                              projectId |-> ProjectIdOrNull(body),
                              amount |-> body.amount,
                              status |-> IF "status" \in DOMAIN body THEN body.status
                                         ELSE "DRAFT"]}]

\* invoice.payments.reduce((sum, p) => sum + Number(p.amount), 0)
RECURSIVE SumAmounts(_)
SumAmounts(P) ==
  IF P = {} THEN 0
  ELSE LET x == CHOOSE y \in P : TRUE IN x.amount + SumAmounts(P \ {x})

PaymentsOf(P, i) == {x \in P : x.invoiceId = i}

\* PUT /invoices/:invoiceId : updateData
UpdateInvoiceData(body) ==
  [k \in DOMAIN body |-> IF k = "projectId" THEN ProjectIdOrNull(body) ELSE body[k]]

\* const outstandingAmount = Number(invoice.amount) - totalPaid
FullAmount(invoice, P) == invoice.amount

OutstandingAmount(invoice, P) == invoice.amount - SumAmounts(PaymentsOf(P, invoice.id))

\* the automatic payment of an invoice marked as paid
AutoPayment(invoice, P, u, newId) ==
  [id |-> newId, userId |-> u, invoiceId |-> invoice.id,
   projectId |-> invoice.projectId, amount |-> OutstandingAmount(invoice, P),
   method |-> Some("Automatic")]

\* PUT /invoices/:invoiceId
UpdateInvoiceResult(I, P, Pr, u, i, body, newId) ==
  IF ~\E x \in I : x.id = i /\ x.userId = u
  THEN [status |-> 404, invoices |-> I, payments |-> P]
  ELSE IF ForeignProject(Pr, u, body)
  THEN [status |-> 404, invoices |-> I, payments |-> P]
  ELSE LET existing == CHOOSE x \in I : x.id = i
           isStatusChangingToPaid ==
             "status" \in DOMAIN body /\ body.status = "PAID" /\ existing.status # "PAID"
           invoice == ApplyUpdate(existing, UpdateInvoiceData(body))
       IN [status |-> 200,
           invoices |-> (I \ {existing}) \cup {invoice},
           payments |-> IF isStatusChangingToPaid /\ OutstandingAmount(invoice, P) > 0
                        THEN P \cup {AutoPayment(invoice, P, u, newId)}
                        ELSE P]

\* DELETE /invoices/:invoiceId ; Payment.invoiceId is ON DELETE CASCADE
DeleteInvoiceResult(I, P, u, i) ==
  IF ~\E x \in I : x.id = i /\ x.userId = u
  THEN [status |-> 404, invoices |-> I, payments |-> P]
  ELSE [status |-> 200, invoices |-> {x \in I : x.id # i},
        payments |-> {x \in P : x.invoiceId # i}]

\* POST /payments
CreatePaymentResult(I, P, Pr, u, body, newId) ==
  IF ~\E x \in I : x.id = body.invoiceId /\ x.userId = u
  THEN [status |-> 404, invoices |-> I, payments |-> P]
  ELSE IF ForeignProject(Pr, u, body)
  THEN [status |-> 404, invoices |-> I, payments |-> P]
  ELSE LET invoice == CHOOSE x \in I : x.id = body.invoiceId
           payment == [id |-> newId, userId |-> u, invoiceId |-> invoice.id,
                       projectId |-> IF "projectId" \in DOMAIN body
                                        /\ ~IsNull(body.projectId)
                                     THEN body.projectId ELSE invoice.projectId,
                       amount |-> body.amount, method |-> Null]
           P2 == P \cup {payment}
       IN [status |-> 201,
           invoices |-> IF SumAmounts(PaymentsOf(P2, invoice.id)) >= invoice.amount
                        THEN (I \ {invoice}) \cup {[invoice EXCEPT !.status = "PAID"]}
                        ELSE I,
           payments |-> P2]

\* ON DELETE SET NULL of a projectId column
SetNullProject(rows, p) ==
  {IF x.projectId = Some(p) THEN [x EXCEPT !.projectId = Null] ELSE x : x \in rows}

\* DELETE /projects/:projectId ; TimeEntry.projectId is ON DELETE CASCADE,
\* Invoice.projectId and Payment.projectId are ON DELETE SET NULL
DeleteProjectResult(Pr, T, I, P, u, p) ==
  IF ~\E pr \in Pr : pr.id = p /\ pr.userId = u
  THEN [status |-> 404, projects |-> Pr, timeEntries |-> T, invoices |-> I,
        payments |-> P]
  ELSE [status |-> 200,
        projects |-> {pr \in Pr : pr.id # p},
        timeEntries |-> {e \in T : e.projectId # p},
        invoices |-> SetNullProject(I, p),
        payments |-> SetNullProject(P, p)]

CreateInvoice(u, body) ==
  /\ Cardinality(invoices) < MaxInvoices
  /\ invoices' = CreateInvoiceResult(invoices, projects, u, body,
                                     FreshId(invoices)).invoices
  /\ UNCHANGED <<projects, timeEntries, nextId, now, serverLog, explicit, reqs, payments>>

UpdateInvoice(u, i, body) ==
  /\ LET r == UpdateInvoiceResult(invoices, payments, projects, u, i, body,
                                  FreshId(payments))
     IN /\ r.payments # payments => Cardinality(payments) < MaxPayments
        /\ invoices' = r.invoices /\ payments' = r.payments
  /\ UNCHANGED <<projects, timeEntries, nextId, now, serverLog, explicit, reqs>>

DeleteInvoice(u, i) ==
  /\ LET r == DeleteInvoiceResult(invoices, payments, u, i)
     IN invoices' = r.invoices /\ payments' = r.payments
  /\ UNCHANGED <<projects, timeEntries, nextId, now, serverLog, explicit, reqs>>

CreatePayment(u, body) ==
  /\ Cardinality(payments) < MaxPayments
  /\ LET r == CreatePaymentResult(invoices, payments, projects, u, body,
                                  FreshId(payments))
     IN invoices' = r.invoices /\ payments' = r.payments
  /\ UNCHANGED <<projects, timeEntries, nextId, now, serverLog, explicit, reqs>>

DeleteProject(u, p) ==
  /\ LET r == DeleteProjectResult(projects, timeEntries, invoices, payments, u, p)
     IN /\ projects' = r.projects /\ timeEntries' = r.timeEntries
        /\ invoices' = r.invoices /\ payments' = r.payments
  /\ UNCHANGED <<nextId, now, serverLog, explicit, reqs>>

NextLedger ==
  \/ \E body \in CreateInvoiceBodies : CreateInvoice("u1", body)
  \/ \E u \in Users, i \in InvoiceIds, body \in UpdateInvoiceBodies :
       UpdateInvoice(u, i, body)
  \/ \E u \in Users, i \in InvoiceIds : DeleteInvoice(u, i)
  \/ \E u \in Users, body \in CreatePaymentBodies : CreatePayment(u, body)
  \/ \E u \in Users : DeleteProject(u, "p1")
  \/ StartTimeEntry("u1", "p1")

SpecLedger == Init /\ [][NextLedger]_vars

----------------------------------------------------------------------------
\* The claims

\* (u, p) has a running entry: a row of theirs with no end instant
HasOpen(T, u, p) ==
  \E e \in T : e.userId = u /\ e.projectId = p /\ e.endedAt = Null

OpenRows(T, u, p) ==
  {e \in T : e.userId = u /\ e.projectId = p /\ e.endedAt = Null}

\* C1: in every reachable state each (project, user) pair has at most one
\* TimeInterval whose end instant is null.
C1_AtMostOneOpen ==
  \A u \in Users, p \in ProjectIds : Cardinality(OpenRows(timeEntries, u, p)) <= 1

\* C2: once N concurrent start requests of one (user, project) have all been
\* answered, exactly one got the 201 and the other N-1 got the conflict error.
C2_ExactlyOneStartSucceeds ==
  (\A r \in Requests : reqs[r].pc = "done") =>
     /\ Cardinality({r \in Requests : reqs[r].status = 201}) = 1
     /\ Cardinality({r \in Requests : reqs[r].status = 400}) = NumRequests - 1

\* C3: start and resume for a (user, project) that has an open interval both
\* answer with the conflict error (400) and leave the table as it was.
C3_ConflictLeavesTableUnchanged ==
  \A u \in Users, p \in ProjectIds :
    HasOpen(timeEntries, u, p) =>
      /\ StartResult(timeEntries, now, nextId + 1, u, p) = Reply(400, timeEntries)
      /\ \A id \in EntryIds :
           ResumeResult(timeEntries, now, u, p, id) = Reply(400, timeEntries)

\* C3 witness: a scope with a running entry and a closed one, where both the
\* start and the resume of the closed one are refused.
C3_Witness ==
  \E e1 \in timeEntries, e2 \in timeEntries :
    /\ e1.userId = e2.userId /\ e1.projectId = e2.projectId
    /\ e1.endedAt = Null /\ e2.endedAt # Null
    /\ StartResult(timeEntries, now, nextId + 1, e1.userId, e1.projectId).status = 400
    /\ ResumeResult(timeEntries, now, e2.userId, e2.projectId, e2.id).status = 400

\* the whole number of minutes nearest to ms milliseconds, a half counting up
MinuteRange ==
  -(MaxBackMinutes + MaxTicks + 2) .. (MaxBackMinutes + MaxTicks + 2)

NearestMinute(ms) ==
  CHOOSE m \in MinuteRange :
    /\ 2 * m * MsPerMinute - MsPerMinute <= 2 * ms
    /\ 2 * ms < 2 * m * MsPerMinute + MsPerMinute

EmptyBody == [k \in {} |-> ""]

RowOf(T, id) == CHOOSE e \in T : e.id = id

\* what the stop of the open row e with this body must leave in the table,
\* given the note the row is to carry
Stopped(e, note) ==
  (timeEntries \ {e}) \cup
    {[e EXCEPT !.endedAt = Some(now),
               !.durationMinutes = Some(NearestMinute(now - e.startedAt)),
               !.note = note]}

\* C4 (as stated): stop on an open interval owned by the caller sets end = now,
\* duration = round((end - start) / 60000 ms) and note = the note passed in the
\* call, null if none was passed; a read right after returns these values.
C4_StopStoresNotePassed ==
  \A e \in timeEntries : e.endedAt = Null =>
    \A body \in StopBodies :
      StopResult(timeEntries, now, e.userId, e.projectId, e.id, body) =
        Reply(200, Stopped(e, IF "note" \in DOMAIN body THEN Some(body.note)
                              ELSE Null))

\* C4 (amended): as above, with note = the note passed in the call when it is
\* a non-empty string, and null when no note or the empty string was passed.
C4_StopSetsEndDurationNote ==
  \A e \in timeEntries : e.endedAt = Null =>
    \A body \in StopBodies :
      StopResult(timeEntries, now, e.userId, e.projectId, e.id, body) =
        Reply(200, Stopped(e, IF "note" \in DOMAIN body /\ body.note # ""
                              THEN Some(body.note) ELSE Null))

\* C4 witness: a running entry that carries a note and started at least half a
\* minute ago; stopping it without a note closes it at the current instant with
\* a duration of at least one minute and the note gone.
C4_Witness ==
  \E e \in timeEntries :
    /\ e.endedAt = Null /\ e.note = Some("n") /\ now - e.startedAt >= TickMs
    /\ LET r == StopResult(timeEntries, now, e.userId, e.projectId, e.id, EmptyBody)
           e2 == RowOf(r.timeEntries, e.id)
       IN /\ r.status = 200
          /\ e2.endedAt = Some(now)
          /\ e2.durationMinutes # Null /\ Val(e2.durationMinutes) >= 1
          /\ e2.note = Null

\* the duration a closed row carries, 0 when it carries none
PreviousMinutes(e) == IF e.durationMinutes = Null THEN 0 ELSE e.durationMinutes[1]

\* C5: resume of a closed interval (its scope having no open one) mutates that
\* record and creates none: the number of intervals is unchanged, the record
\* keeps its id, end and duration become null, start = now - previous duration.
C5_ResumeReopensInPlace ==
  \A e \in timeEntries :
    (e.endedAt # Null /\ ~HasOpen(timeEntries, e.userId, e.projectId)) =>
      LET r == ResumeResult(timeEntries, now, e.userId, e.projectId, e.id)
      IN /\ r.status = 200
         /\ Cardinality(r.timeEntries) = Cardinality(timeEntries)
         /\ r.timeEntries = (timeEntries \ {e}) \cup
              {[e EXCEPT !.endedAt = Null, !.durationMinutes = Null,
                         !.startedAt = now - PreviousMinutes(e) * MsPerMinute]}

\* C5 witness: a row just resumed (its log line is of this instant) that had a
\* duration of at least a minute: it is open, back-dated by that duration.
C5_Witness ==
  \E l \in serverLog, e \in timeEntries :
    /\ e.id = l.id /\ l.at = now /\ l.previousDurationMinutes >= 1
    /\ e.endedAt = Null /\ e.durationMinutes = Null
    /\ e.startedAt = now - l.previousDurationMinutes * MsPerMinute

\* C6: a closed interval of duration d resumed at t and stopped at t + e, with
\* no other write to it in between, is closed with duration d + (e rounded to
\* the nearest minute).
C6_ResumeThenStopAccumulates ==
  \A l \in serverLog, e \in timeEntries :
    (e.id = l.id /\ e.endedAt # Null) =>
      e.durationMinutes =
        Some(l.previousDurationMinutes + NearestMinute(Val(e.endedAt) - l.at))

\* C6 witness: a row resumed with at least a minute on it and stopped later.
C6_Witness ==
  \E l \in serverLog, e \in timeEntries :
    /\ e.id = l.id /\ e.endedAt # Null
    /\ l.previousDurationMinutes >= 1
    /\ Val(e.endedAt) > l.at
    /\ Val(e.durationMinutes) > l.previousDurationMinutes

\* which handler a step of the server ran on the row id, called by its owner
IsOpen(T, id) == \E e \in T : e.id = id /\ e.endedAt = Null
IsClosed(T, id) == \E e \in T : e.id = id /\ e.endedAt # Null
Present(T, id) == \E e \in T : e.id = id

StepIsStop(id) ==
  LET e == RowOf(timeEntries, id)
  IN \E body \in StopBodies :
       LET r == StopResult(timeEntries, now, e.userId, e.projectId, id, body)
       IN r.status = 200 /\ timeEntries' = r.timeEntries

StepIsResume(id) ==
  LET e == RowOf(timeEntries, id)
      r == ResumeResult(timeEntries, now, e.userId, e.projectId, id)
  IN r.status = 200 /\ timeEntries' = r.timeEntries

StepIsDelete(id) ==
  LET e == RowOf(timeEntries, id)
  IN \/ LET r == DeleteResult(timeEntries, e.userId, e.projectId, id)
        IN r.status = 200 /\ timeEntries' = r.timeEntries
     \/ LET r == RouterDeleteResult(timeEntries, e.userId, id)
        IN r.status = 200 /\ timeEntries' = r.timeEntries

StepIsUpdate(id) ==
  LET e == RowOf(timeEntries, id)
  IN \E body \in UpdateBodies :
       \/ LET r == UpdateResult(timeEntries, e.userId, e.projectId, id, body)
          IN r.status = 200 /\ timeEntries' = r.timeEntries
       \/ LET r == RouterUpdateResult(timeEntries, e.userId, id, body)
          IN r.status = 200 /\ timeEntries' = r.timeEntries

\* stop on a closed interval and resume on an open one fail, whoever calls, and
\* leave the table (so the interval's start, end, duration and note) as it was
C7_WrongStateFails ==
  \A e \in timeEntries, u \in Users, p \in ProjectIds :
    /\ e.endedAt # Null =>
         \A body \in StopBodies :
           StopResult(timeEntries, now, u, p, e.id, body) = Reply(404, timeEntries)
    /\ e.endedAt = Null =>
         LET r == ResumeResult(timeEntries, now, u, p, e.id)
         IN r.status \in {400, 404} /\ r.timeEntries = timeEntries

\* C7 (as stated): stop on a CLOSED interval fails and resume on an OPEN one
\* fails, the interval unchanged; and an interval goes from OPEN to CLOSED only
\* by stop, from CLOSED to OPEN only by resume, and away only by delete.
C7_OnlyStopResumeDelete ==
  /\ []C7_WrongStateFails
  /\ [][\A id \in EntryIds :
          /\ (IsOpen(timeEntries, id) /\ IsClosed(timeEntries', id)) => StepIsStop(id)
          /\ (IsClosed(timeEntries, id) /\ IsOpen(timeEntries', id)) => StepIsResume(id)
          /\ (Present(timeEntries, id) /\ ~Present(timeEntries', id)) => StepIsDelete(id)
      ]_vars

\* C7 (amended): stop on a CLOSED interval fails and resume on an OPEN one
\* fails, the interval unchanged; an interval goes from OPEN to CLOSED only by
\* stop or update, from CLOSED to OPEN only by resume or update, and away only
\* by delete.
C7_OnlyStopResumeUpdateDelete ==
  /\ []C7_WrongStateFails
  /\ [][\A id \in EntryIds :
          /\ (IsOpen(timeEntries, id) /\ IsClosed(timeEntries', id)) =>
               (StepIsStop(id) \/ StepIsUpdate(id))
          /\ (IsClosed(timeEntries, id) /\ IsOpen(timeEntries', id)) =>
               (StepIsResume(id) \/ StepIsUpdate(id))
          /\ (Present(timeEntries, id) /\ ~Present(timeEntries', id)) => StepIsDelete(id)
      ]_vars

\* C7 witness: a closed row whose stop is refused beside an open row whose
\* resume is refused, the closed one having been open before (it has a
\* duration that no request body set).
C7_Witness ==
  \E e1 \in timeEntries, e2 \in timeEntries :
    /\ e1.endedAt # Null /\ e1.durationMinutes # Null /\ e1.id \notin explicit
    /\ e2.endedAt = Null
    /\ StopResult(timeEntries, now, e1.userId, e1.projectId, e1.id, EmptyBody).status = 404
    /\ ResumeResult(timeEntries, now, e2.userId, e2.projectId, e2.id).status = 400

\* the start and the end an update leaves on the row e
ResultingStart(e, body) ==
  IF "startedAt" \in DOMAIN body THEN body.startedAt ELSE e.startedAt

ResultingEnd(e, body) ==
  IF "endedAt" \in DOMAIN body THEN body.endedAt ELSE e.endedAt

\* C8: update fails with a validation error (400) and leaves the interval
\* unchanged whenever the start and end resulting from the patch satisfy
\* end <= start, for every partial patch and at both update entry points.
C8_UpdateRejectsEndNotAfterStart ==
  \A e \in timeEntries, body \in UpdateBodies :
    (ResultingEnd(e, body) # Null /\ Val(ResultingEnd(e, body)) <= ResultingStart(e, body)) =>
      /\ UpdateResult(timeEntries, e.userId, e.projectId, e.id, body) =
           Reply(400, timeEntries)
      /\ RouterUpdateResult(timeEntries, e.userId, e.id, body) = Reply(400, timeEntries)

\* C9: in every reachable state every interval has end instant and duration
\* minutes either both null or both non-null.
C9_EndAndDurationTogether ==
  \A e \in timeEntries : (e.endedAt = Null) <=> (e.durationMinutes = Null)

\* C10: every closed interval whose stored duration was not given by a request
\* body has duration = round((end - start) / 60000), and the list read leaves
\* the table as it is.
C10_ClosedDurationIsRounded ==
  /\ \A e \in timeEntries :
       (e.endedAt # Null /\ e.id \notin explicit) =>
         e.durationMinutes = Some(NearestMinute(Val(e.endedAt) - e.startedAt))
  /\ \A u \in Users, p \in ProjectIds :
       GetTimeEntriesResult(timeEntries, u, p).timeEntries = timeEntries

\* C10 witness: a closed row, its duration computed, whose span ends on a half
\* minute, so the rounding decides the stored value.
C10_Witness ==
  \E e \in timeEntries :
    /\ e.endedAt # Null /\ e.id \notin explicit
    /\ (Val(e.endedAt) - e.startedAt) % MsPerMinute = TickMs
    /\ Val(e.durationMinutes) >= 1

\* the row id is not one of (u, p): it does not exist, or it is of another user
\* or of another project than the one the call names
NotTheirs(T, u, p, id) ==
  ~\E e \in T : e.id = id /\ e.userId = u /\ e.projectId = p

NotOfUser(T, u, id) == ~\E e \in T : e.id = id /\ e.userId = u

\* the table had the row id never existed
Without(T, id) == {e \in T : e.id # id}

\* a body whose endedAt is JSON null, which the schema of /time-entries refuses
NullEnd(body) == "endedAt" \in DOMAIN body /\ body.endedAt = Null

\* stop, update and delete of a row that is not the caller's: 404, the table
\* as it was, the message the one given when the row does not exist
C11_StopUpdateDeleteNotFound ==
  /\ \A u \in Users, p \in ProjectIds, id \in EntryIds :
       NotTheirs(timeEntries, u, p, id) =>
         /\ \A body \in StopBodies :
              StopResult(timeEntries, now, u, p, id, body) = Reply(404, timeEntries)
         /\ StopError(timeEntries, u, p, id) =
              StopError(Without(timeEntries, id), u, p, id)
         /\ \A body \in UpdateBodies :
              UpdateResult(timeEntries, u, p, id, body) = Reply(404, timeEntries)
         /\ DeleteResult(timeEntries, u, p, id) = Reply(404, timeEntries)
         /\ EntryError(timeEntries, u, p, id) =
              EntryError(Without(timeEntries, id), u, p, id)
  /\ \A u \in Users, id \in EntryIds :
       NotOfUser(timeEntries, u, id) =>
         /\ \A body \in UpdateBodies :
              /\ RouterUpdateResult(timeEntries, u, id, body) =
                   Reply(IF NullEnd(body) THEN 400 ELSE 404, timeEntries)
              /\ RouterUpdateError(timeEntries, u, id, body) =
                   RouterUpdateError(Without(timeEntries, id), u, id, body)
         /\ RouterDeleteResult(timeEntries, u, id) = Reply(404, timeEntries)
         /\ RouterDeleteError(timeEntries, u, id) =
              RouterDeleteError(Without(timeEntries, id), u, id)

OwnsProject(u, p) == \E pr \in projects : pr.id = p /\ pr.userId = u

\* start of a new entry newId in (u, p) at t, then its stop at t2: both succeed
\* and the scope is left with no open interval
StartThenStop(T, t, t2, newId, u, p) ==
  LET r1 == StartResult(T, t, newId, u, p)
      r2 == StopResult(r1.timeEntries, t2, u, p, newId, EmptyBody)
  IN /\ r1.status = 201
     /\ r2.status = 200
     /\ ~HasOpen(r2.timeEntries, u, p)

\* C12: once the open interval of a (user, project) is closed by stop or
\* removed by delete (at either delete entry point), the next start in that
\* scope answers 201; and in a scope with no open interval start followed by
\* stop succeeds, and succeeds again right after, so it can be repeated.
C12_StartSucceedsAfterClose ==
  /\ \A e \in timeEntries :
       OpenRows(timeEntries, e.userId, e.projectId) = {e} =>
         LET u == e.userId
             p == e.projectId
         IN /\ \A body \in StopBodies :
                 LET r == StopResult(timeEntries, now, u, p, e.id, body)
                 IN /\ r.status = 200
                    /\ StartResult(r.timeEntries, now, nextId + 1, u, p).status = 201
            /\ LET r == DeleteResult(timeEntries, u, p, e.id)
               IN /\ r.status = 200
                  /\ StartResult(r.timeEntries, now, nextId + 1, u, p).status = 201
            /\ LET r == RouterDeleteResult(timeEntries, u, e.id)
               IN /\ r.status = 200
                  /\ StartResult(r.timeEntries, now, nextId + 1, u, p).status = 201
  /\ \A u \in Users, p \in ProjectIds :
       (OwnsProject(u, p) /\ ~HasOpen(timeEntries, u, p)) =>
         \A t2 \in {now, now + TickMs} :
           /\ StartThenStop(timeEntries, now, t2, nextId + 1, u, p)
           /\ LET r1 == StartResult(timeEntries, now, nextId + 1, u, p)
                  r2 == StopResult(r1.timeEntries, t2, u, p, nextId + 1, EmptyBody)
              IN StartThenStop(r2.timeEntries, t2, t2, nextId + 2, u, p)

\* C12 witness: a scope on its second round: a closed row of an earlier start
\* and stop, and the open row of a start made after that stop; stopping or
\* deleting the open row lets the next start through.
C12_Witness ==
  \E e1 \in timeEntries, e2 \in timeEntries :
    /\ e1.userId = e2.userId /\ e1.projectId = e2.projectId
    /\ e1.endedAt # Null /\ e1.id \notin explicit /\ e1.id < e2.id
    /\ OpenRows(timeEntries, e2.userId, e2.projectId) = {e2}
    /\ e2.startedAt >= Val(e1.endedAt)
    /\ StartResult(StopResult(timeEntries, now, e2.userId, e2.projectId, e2.id,
                              EmptyBody).timeEntries,
                   now, nextId + 1, e2.userId, e2.projectId).status = 201
    /\ StartResult(DeleteResult(timeEntries, e2.userId, e2.projectId,
                                e2.id).timeEntries,
                   now, nextId + 1, e2.userId, e2.projectId).status = 201

\* elapsed times, in ms, that are less than half a minute
ShortElapsed == {0, 1, TickMs - 1}

\* C13: stop of an open interval at the instant it started, or so soon after
\* that the elapsed time rounds to 0 minutes, answers 200 and leaves the
\* interval closed at that instant with duration 0.
C13_StopWithZeroElapsed ==
  \A e \in timeEntries, d \in ShortElapsed :
    (e.endedAt = Null /\ e.startedAt + d >= now) =>
      \A body \in StopBodies :
        LET t == e.startedAt + d
            r == StopResult(timeEntries, t, e.userId, e.projectId, e.id, body)
        IN /\ r.status = 200
           /\ Cardinality(r.timeEntries) = Cardinality(timeEntries)
           /\ \E e2 \in r.timeEntries :
                /\ e2.id = e.id /\ e2.startedAt = e.startedAt
                /\ e2.endedAt = Some(t)
                /\ e2.durationMinutes = Some(0)

\* C13 witness: an entry stopped at the very instant it started: it is closed
\* with end = start and a computed duration of 0.
C13_Witness ==
  \E e \in timeEntries :
    /\ e.endedAt = Some(e.startedAt) /\ e.startedAt = now
    /\ e.id \notin explicit
    /\ e.durationMinutes = Some(0)

\* what an update with this body must leave as the duration of row e2, the
\* row e after the update: the body's duration if it carries one, else the
\* rounded span when the resulting end is set
DurationAsClaimed(e, e2, body) ==
  IF "durationMinutes" \in DOMAIN body
  THEN e2.durationMinutes = body.durationMinutes
  ELSE ResultingEnd(e, body) # Null =>
         e2.durationMinutes =
           Some(NearestMinute(Val(ResultingEnd(e, body)) - ResultingStart(e, body)))

\* the rule at PUT /projects/:projectId/time-entries/:timeEntryId
C14_ProjectRouteDuration ==
  \A e \in timeEntries, body \in UpdateBodies :
    LET r == UpdateResult(timeEntries, e.userId, e.projectId, e.id, body)
    IN r.status = 200 => DurationAsClaimed(e, RowOf(r.timeEntries, e.id), body)

\* the rule at PUT /time-entries/:timeEntryId
C14_RouterDuration ==
  \A e \in timeEntries, body \in UpdateBodies :
    LET r == RouterUpdateResult(timeEntries, e.userId, e.id, body)
    IN r.status = 200 => DurationAsClaimed(e, RowOf(r.timeEntries, e.id), body)

\* C14: an update that succeeds stores duration = round((end - start) / 60000)
\* of the resulting start and end when both are present and the patch carries
\* no explicit duration; when the patch carries an explicit duration, that
\* value is stored as given.  At both update entry points.
C14_UpdateDuration == C14_ProjectRouteDuration /\ C14_RouterDuration

\* the patches that set the end instant to null and carry no duration
ReopeningBodies ==
  {body \in UpdateBodies : NullEnd(body) /\ "durationMinutes" \notin DOMAIN body}

\* the rule at PUT /projects/:projectId/time-entries/:timeEntryId
C15_ProjectRouteClears ==
  \A e \in timeEntries, body \in ReopeningBodies :
    e.endedAt # Null =>
      LET e2 == RowOf(UpdateResult(timeEntries, e.userId, e.projectId, e.id,
                                   body).timeEntries, e.id)
      IN e2.endedAt = Null /\ e2.durationMinutes = Null

\* the rule at PUT /time-entries/:timeEntryId
C15_RouterClears ==
  \A e \in timeEntries, body \in ReopeningBodies :
    e.endedAt # Null =>
      LET e2 == RowOf(RouterUpdateResult(timeEntries, e.userId, e.id,
                                         body).timeEntries, e.id)
      IN e2.endedAt = Null /\ e2.durationMinutes = Null

\* C15: an update of a closed interval whose patch sets the end instant to
\* null and carries no duration leaves the interval with end = null and
\* duration = null.  At both update entry points.
C15_NullEndClearsDuration == C15_ProjectRouteClears /\ C15_RouterClears

----------------------------------------------------------------------------
\* The claims on the billing calculator

\* completed time of a project: closed rows with more than 0 minutes
Completed(T, pr) ==
  {e \in T : /\ e.projectId = pr.id /\ e.endedAt # Null
             /\ e.durationMinutes # Null /\ e.durationMinutes[1] > 0}

RECURSIVE MinutesOf(_)
MinutesOf(S) ==
  IF S = {} THEN 0
  ELSE LET e == CHOOSE x \in S : TRUE IN e.durationMinutes[1] + MinutesOf(S \ {e})

\* n / d rounded to the nearest whole number, a half counting up (n >= 0, d > 0)
RoundedRatio(n, d) ==
  LET q == n \div d IN IF 2 * (n - q * d) >= d THEN q + 1 ELSE q

\* the true decimal hours of M minutes, round(M / 60, 2), in hundredths
TrueDecimalHours(M) == RoundedRatio(100 * M, 60)

\* the number of distinct period keys among the rows S
DistinctPeriods(S, periodType) ==
  IF periodType = Some("WEEKLY")
  THEN Cardinality({WeekStartKey(e.startedAt) : e \in S})
  ELSE Cardinality({MonthKey(e.startedAt) : e \in S})

\* what computeStats answers for the hours and the rate of a project
HoursAndRate(pr, T) ==
  LET stats == CalculateProjectStats(pr, T, payments)
  IN <<stats.totalHours, stats.effectiveHourlyRate>>

\* a row that is not completed time: running, or closed with 0 minutes
NotCompleted(e) == e.endedAt = Null \/ (e.endedAt # Null /\ e.durationMinutes = Some(0))

\* rows of that kind that could be added to the project, started at instant t
RowsToAdd(pr, t) ==
  {[id |-> nextId + 1, projectId |-> pr.id, userId |-> pr.userId, startedAt |-> t,
    endedAt |-> Null, durationMinutes |-> Null, note |-> Null],
   [id |-> nextId + 1, projectId |-> pr.id, userId |-> pr.userId, startedAt |-> t,
    endedAt |-> Some(t), durationMinutes |-> Some(0), note |-> Null]}

\* C16: computeStats counts only intervals with a non-null end and more than 0
\* minutes: removing an open interval or a closed one of duration 0 from the
\* project, or adding one, changes neither totalHours nor effectiveHourlyRate.
C16_OnlyCompletedCount ==
  \A pr \in projects :
    /\ \A e \in timeEntries :
         (e.projectId = pr.id /\ NotCompleted(e)) =>
           HoursAndRate(pr, timeEntries \ {e}) = HoursAndRate(pr, timeEntries)
    /\ \A t \in {0, LongStep, 2 * LongStep, now} : \A x \in RowsToAdd(pr, t) :
         HoursAndRate(pr, timeEntries \cup {x}) = HoursAndRate(pr, timeEntries)

\* C16 witness: a RECURRING_PERIOD project with a rate, whose table holds a
\* completed interval and, in another month, a closed interval of 0 minutes.
C16_Witness ==
  \E pr \in projects, e1 \in timeEntries, e2 \in timeEntries :
    /\ pr.billingMode = "RECURRING_PERIOD"
    /\ CalculateProjectStats(pr, timeEntries, payments).effectiveHourlyRate # Null
    /\ e1 \in Completed(timeEntries, pr)
    /\ e2.projectId = pr.id /\ e2.endedAt # Null /\ e2.durationMinutes = Some(0)
    /\ MonthKey(e1.startedAt) # MonthKey(e2.startedAt)

\* C17: for a FIXED_TOTAL project with fixedTotalAmount set and M > 0 completed
\* minutes, effectiveHourlyRate = round(fixedTotalAmount / H, 2) with H the
\* true decimal hours round(M / 60, 2).
C17_FixedTotalOverDecimalHours ==
  \A pr \in projects :
    LET M == MinutesOf(Completed(timeEntries, pr))
    IN (pr.billingMode = "FIXED_TOTAL" /\ pr.fixedTotalAmount # Null /\ M > 0) =>
         CalculateProjectStats(pr, timeEntries, payments).effectiveHourlyRate =
           Some(RoundedRatio(100 * pr.fixedTotalAmount[1], TrueDecimalHours(M)))

\* C18: for a project with no completed interval computeStats answers
\* totalHours = 0 and effectiveHourlyRate = null, in every billing mode and
\* for every stored parameter value.
C18_NoCompletedNoRate ==
  \A pr \in projects :
    Completed(timeEntries, pr) = {} =>
      LET stats == CalculateProjectStats(pr, timeEntries, payments)
      IN stats.totalHours = 0 /\ stats.effectiveHourlyRate = Null

\* the hourly rate a PUT /projects body leaves configured
Configured(a) == IF a = Null \/ a = Some(0) THEN Null ELSE a

\* C19: for a HOURLY project computeStats answers effectiveHourlyRate = the
\* configured hourlyRate, whatever intervals and payments exist, and null
\* exactly when no hourlyRate is configured; so it does right after the
\* hourly rate is configured anew.
C19_HourlyRateVerbatim ==
  \A pr \in projects :
    /\ pr.billingMode = "HOURLY" =>
         /\ CalculateProjectStats(pr, timeEntries, payments).effectiveHourlyRate =
              pr.hourlyRate
         /\ pr.hourlyRate # Some(0)
    /\ \A a \in BodyAmounts :
         LET r == UpdateProjectResult(projects, pr.userId, pr.id, [hourlyRate |-> a])
         IN \A pr2 \in r.projects :
              (pr2.id = pr.id /\ pr2.billingMode = "HOURLY") =>
                CalculateProjectStats(pr2, timeEntries, payments).effectiveHourlyRate =
                  Configured(a)

\* C19 witness: a HOURLY project with a rate configured, payments, and
\* completed time that is not a whole number of hours.
C19_Witness ==
  \E pr \in projects :
    /\ pr.billingMode = "HOURLY" /\ pr.hourlyRate = Some(10000)
    /\ MinutesOf(Completed(timeEntries, pr)) % 60 # 0
    /\ CalculateProjectStats(pr, timeEntries, payments).totalIncome > 0
    /\ CalculateProjectStats(pr, timeEntries, payments).effectiveHourlyRate = Some(10000)

\* C20: for a RECURRING_PERIOD project effectiveHourlyRate =
\* round(recurringAmount x periodCount / totalHours, 2), periodCount being the
\* number of distinct period keys among the completed intervals and totalHours
\* the decimal hours; null when totalHours = 0, recurringAmount is unset or
\* periodCount = 0.
C20_RecurringOverDecimalHours ==
  \A pr \in projects :
    pr.billingMode = "RECURRING_PERIOD" =>
      LET S == Completed(timeEntries, pr)
          H == TrueDecimalHours(MinutesOf(S))
          periodCount == DistinctPeriods(S, pr.recurringPeriodType)
      IN CalculateProjectStats(pr, timeEntries, payments).effectiveHourlyRate =
           IF H > 0 /\ pr.recurringAmount # Null /\ periodCount > 0
           THEN Some(RoundedRatio(100 * pr.recurringAmount[1] * periodCount, H))
           ELSE Null

\* the rows of a project that carry a duration, completed or not
WithDuration(T, pr) == {e \in T : e.projectId = pr.id /\ e.durationMinutes # Null}

\* an amount of money in hundredths, in the unit of computeBillableAmount
Sixtieths(amount) == 60 * amount

\* a HOURLY project at 50.00 an hour with one interval of 90 minutes
ExampleProject ==
  CreateProjectData([billingMode |-> "HOURLY", hourlyRate |-> Some(5000)], "p1", "u1")

ExampleEntries ==
  {[id |-> 1, projectId |-> "p1", userId |-> "u1", startedAt |-> 0,
    endedAt |-> Some(90 * MsPerMinute), durationMinutes |-> Some(90), note |-> Null]}

\* C21: computeBillableAmount does not depend on the payments; for a
\* FIXED_TOTAL project it is fixedTotalAmount (0 if unset) whatever time was
\* tracked; for a HOURLY project it is hourlyRate x (total minutes of the
\* intervals with a non-null duration / 60): a rate of 50 and 90 minutes give 75.
C21_BillableAmountFixedHourly ==
  /\ \A pr \in projects :
       /\ \A P \in PaymentTables :
            CalculateProjectBillableAmount(pr, timeEntries, P) =
              CalculateProjectBillableAmount(pr, timeEntries, payments)
       /\ pr.billingMode = "FIXED_TOTAL" =>
            \A T \in SUBSET timeEntries :
              CalculateProjectBillableAmount(pr, T, payments) =
                Sixtieths(IF pr.fixedTotalAmount = Null THEN 0 ELSE pr.fixedTotalAmount[1])
       /\ (pr.billingMode = "HOURLY" /\ pr.hourlyRate # Null) =>
            CalculateProjectBillableAmount(pr, timeEntries, payments) =
              pr.hourlyRate[1] * MinutesOf(WithDuration(timeEntries, pr))
  /\ \A P \in PaymentTables :
       CalculateProjectBillableAmount(ExampleProject, ExampleEntries, P) = Sixtieths(7500)

\* C21 witness: a HOURLY project with a rate, payments of its own, and tracked
\* time that is not a whole number of hours.
C21_Witness ==
  \E pr \in projects :
    /\ pr.billingMode = "HOURLY" /\ pr.hourlyRate = Some(10000)
    /\ MinutesOf(WithDuration(timeEntries, pr)) % 60 # 0
    /\ \E x \in payments : x.projectId = Some(pr.id)
    /\ CalculateProjectBillableAmount(pr, timeEntries, payments) =
         10000 * MinutesOf(WithDuration(timeEntries, pr))

\* C22: for a RECURRING_PERIOD project computeBillableAmount is
\* recurringAmount x the number of distinct periods among all the intervals
\* with a non-null duration, closed intervals of 0 minutes included, while the
\* rate of computeStats counts the periods of the completed intervals only.
C22_RecurringAllPeriods ==
  \A pr \in projects :
    pr.billingMode = "RECURRING_PERIOD" =>
      LET amount == IF pr.recurringAmount = Null THEN 0 ELSE pr.recurringAmount[1]
          allPeriods == DistinctPeriods(WithDuration(timeEntries, pr),
                                        pr.recurringPeriodType)
          completedPeriods == DistinctPeriods(Completed(timeEntries, pr),
                                              pr.recurringPeriodType)
          stats == CalculateProjectStats(pr, timeEntries, payments)
      IN /\ CalculateProjectBillableAmount(pr, timeEntries, payments) =
              Sixtieths(amount * allPeriods)
         /\ stats.effectiveHourlyRate =
              IF stats.totalHours > 0 /\ pr.recurringAmount # Null /\ completedPeriods > 0
              THEN Some(RoundedRatio(100 * amount * completedPeriods, stats.totalHours))
              ELSE Null

\* C22 witness: a RECURRING_PERIOD project with an amount, a completed
\* interval in one month and, in another month, only an interval of 0
\* minutes: two periods are billed and the rate counts one.
C22_Witness ==
  \E pr \in projects, e1 \in timeEntries, e2 \in timeEntries :
    /\ pr.billingMode = "RECURRING_PERIOD" /\ pr.recurringAmount = Some(120000)
    /\ pr.recurringPeriodType # Some("WEEKLY")
    /\ Completed(timeEntries, pr) = {e1}
    /\ e2.projectId = pr.id /\ e2.endedAt # Null /\ e2.durationMinutes = Some(0)
    /\ MonthKey(e1.startedAt) # MonthKey(e2.startedAt)
    /\ CalculateProjectBillableAmount(pr, timeEntries, payments) = Sixtieths(2 * 120000)
    /\ CalculateProjectStats(pr, timeEntries, payments).effectiveHourlyRate =
         Some(RoundedRatio(100 * 120000,
                           CalculateProjectStats(pr, timeEntries, payments).totalHours))

\* the order of two period keys of the same kind in time: week keys by their
\* day, month keys by year and month
MonthOrdinal(key) ==
  CASE key = "2023-12" -> 0 [] key = "2024-01" -> 1
    [] key = "2024-02" -> 2 [] key = "2024-03" -> 3

Before(k1, k2) ==
  IF k1[1] = "week" THEN k1[2] < k2[2] ELSE MonthOrdinal(k1[2]) < MonthOrdinal(k2[2])

\* C23: computePeriodRates returns the empty list for every project that is
\* not RECURRING_PERIOD; for a RECURRING_PERIOD project it returns exactly one
\* entry per distinct period key of the intervals with a non-null duration, in
\* strictly ascending order of period key.
C23_PeriodRatesSortedPerKey ==
  \A p \in ProjectIds :
    LET R == GetEffectiveRatesByPeriod(projects, timeEntries, p)
    IN /\ (~\E pr \in projects : pr.id = p /\ pr.billingMode = "RECURRING_PERIOD") =>
            R = <<>>
       /\ \A pr \in projects :
            (pr.id = p /\ pr.billingMode = "RECURRING_PERIOD") =>
              LET keys == {PeriodKey(e, pr.recurringPeriodType) :
                             e \in WithDuration(timeEntries, pr)}
              IN /\ Len(R) = Cardinality(keys)
                 /\ {R[i].period : i \in DOMAIN R} = keys
                 /\ \A i \in DOMAIN R : \A j \in DOMAIN R :
                      i < j => Before(R[i].period, R[j].period)

\* C23 witness: a RECURRING_PERIOD project whose two intervals fall in two
\* periods, so that the list has two entries to order.
C23_Witness ==
  \E pr \in projects :
    /\ pr.billingMode = "RECURRING_PERIOD"
    /\ Len(GetEffectiveRatesByPeriod(projects, timeEntries, pr.id)) = 2
    /\ Cardinality(WithDuration(timeEntries, pr)) = 2

\* a step that is a call of one of the three calculators
CalculatorCall ==
  \/ \E u \in Users : GetProject(u, "p1")
  \/ ComputeBillableAmount("p1")
  \/ \E p \in ProjectIds : ComputePeriodRates(p)

\* C24: computeStats, computeBillableAmount and computePeriodRates change no
\* stored interval, payment or project: every call, whatever precedes or
\* follows it, leaves the three tables as they were.
C24_CalculatorsStoreNothing ==
  [][CalculatorCall => UNCHANGED <<timeEntries, payments, projects>>]_vars

\* C24 witness: a state in which the three calculators have rows to read and
\* each of them answers something: hours, income, an amount and a period list.
C24_Witness ==
  \E pr \in projects :
    /\ pr.billingMode = "RECURRING_PERIOD" /\ pr.recurringAmount # Null
    /\ CalculateProjectStats(pr, timeEntries, payments).totalHours > 0
    /\ CalculateProjectStats(pr, timeEntries, payments).totalIncome > 0
    /\ CalculateProjectBillableAmount(pr, timeEntries, payments) > 0
    /\ Len(GetEffectiveRatesByPeriod(projects, timeEntries, pr.id)) > 0
    /\ ENABLED CalculatorCall

\* the values a numeric billing column can hold, and those of the period type
StoredAmounts == {Null, Some(10000), Some(120000)}
StoredPeriodTypes == {Null} \cup {Some(t) : t \in PeriodTypes}

\* the projects that agree with pr on its billing mode and on the
\* parameter(s) of that mode, the other modes' parameters being anything
SameModeProjects(pr) ==
  CASE pr.billingMode = "FIXED_TOTAL" ->
         {[pr EXCEPT !.recurringAmount = a, !.hourlyRate = b, !.recurringPeriodType = t] :
            a \in StoredAmounts, b \in StoredAmounts, t \in StoredPeriodTypes}
    [] pr.billingMode = "RECURRING_PERIOD" ->
         {[pr EXCEPT !.fixedTotalAmount = a, !.hourlyRate = b] :
            a \in StoredAmounts, b \in StoredAmounts}
    [] pr.billingMode = "HOURLY" ->
         {[pr EXCEPT !.fixedTotalAmount = a, !.recurringAmount = b,
                     !.recurringPeriodType = t] :
            a \in StoredAmounts, b \in StoredAmounts, t \in StoredPeriodTypes}

\* C25: two projects that agree on billing mode, on the parameter(s) of that
\* mode, on intervals and on payments get the same computeStats and the same
\* computeBillableAmount, whatever the other modes' parameters hold.
C25_OtherModesIgnored ==
  \A pr \in projects : \A pr2 \in SameModeProjects(pr) :
    /\ CalculateProjectStats(pr2, timeEntries, payments) =
         CalculateProjectStats(pr, timeEntries, payments)
    /\ CalculateProjectBillableAmount(pr2, timeEntries, payments) =
         CalculateProjectBillableAmount(pr, timeEntries, payments)

\* C25 witness: a FIXED_TOTAL project with completed time and payments whose
\* own amount is unset while the hourly rate and the recurring amount are
\* stored.
C25_Witness ==
  \E pr \in projects :
    /\ pr.billingMode = "FIXED_TOTAL" /\ pr.fixedTotalAmount = Null
    /\ pr.hourlyRate # Null /\ pr.recurringAmount # Null
    /\ pr.recurringPeriodType = Some("WEEKLY")
    /\ Completed(timeEntries, pr) # {}
    /\ \E x \in payments : x.projectId = Some(pr.id)
    /\ CalculateProjectStats(pr, timeEntries, payments).effectiveHourlyRate = Null
    /\ CalculateProjectBillableAmount(pr, timeEntries, payments) = 0

\* the period types the calculators treat as months
MonthlyTypes == {Null, Some("CUSTOM"), Some("MONTHLY")}

\* the Project table with the period type of project pr set to t
WithPeriodType(pr, t) ==
  {IF x.id = pr.id THEN [x EXCEPT !.recurringPeriodType = t] ELSE x : x \in projects}

\* C30: for a RECURRING_PERIOD project whose recurringPeriodType is CUSTOM or
\* null the period key of each interval is the year-month of its start
\* instant, and computeStats, computeBillableAmount and computePeriodRates
\* return what they return for the same project with period type MONTHLY.
C30_CustomAndNullAreMonthly ==
  \A pr \in projects :
    pr.billingMode = "RECURRING_PERIOD" =>
      \A t \in MonthlyTypes \ {Some("MONTHLY")} :
        LET custom == [pr EXCEPT !.recurringPeriodType = t]
            monthly == [pr EXCEPT !.recurringPeriodType = Some("MONTHLY")]
        IN /\ \A e \in timeEntries :
                PeriodKey(e, t) = <<"month", MonthKey(e.startedAt)>>
           /\ CalculateProjectStats(custom, timeEntries, payments) =
                CalculateProjectStats(monthly, timeEntries, payments)
           /\ CalculateProjectBillableAmount(custom, timeEntries, payments) =
                CalculateProjectBillableAmount(monthly, timeEntries, payments)
           /\ GetEffectiveRatesByPeriod(WithPeriodType(pr, t), timeEntries, pr.id) =
                GetEffectiveRatesByPeriod(WithPeriodType(pr, Some("MONTHLY")),
                                          timeEntries, pr.id)

\* C30 witness: a RECURRING_PERIOD project of period type CUSTOM with an
\* amount and an interval that starts in one month and ends in the next; its
\* period list has the one entry of the month of the start.
C30_Witness ==
  \E pr \in projects, e \in timeEntries :
    /\ pr.billingMode = "RECURRING_PERIOD" /\ pr.recurringPeriodType = Some("CUSTOM")
    /\ pr.recurringAmount # Null
    /\ Completed(timeEntries, pr) = {e}
    /\ MonthKey(e.startedAt) # MonthKey(e.endedAt[1])
    /\ LET R == GetEffectiveRatesByPeriod(projects, timeEntries, pr.id)
       IN Len(R) = 1 /\ R[1].period = <<"month", MonthKey(e.startedAt)>>

----------------------------------------------------------------------------
\* The claims on invoices, payments and the deletion of a project

\* C26: deleting a project deletes all of its time intervals and all of its
\* payments: after the delete no TimeInterval and no Payment that belonged to
\* the project remains.
C26_DeleteProjectCascades ==
  \A u \in Users, p \in ProjectIds :
    LET r == DeleteProjectResult(projects, timeEntries, invoices, payments, u, p)
    IN r.status = 200 =>
         /\ \A e \in timeEntries :
              e.projectId = p => ~\E e2 \in r.timeEntries : e2.id = e.id
         /\ \A x \in payments :
              x.projectId = Some(p) => ~\E y \in r.payments : y.id = x.id

\* the payments of invoice i among the rows P, and what they add up to
InvoicePayments(P, i) == {x \in P : x.invoiceId = i}

RECURSIVE PaidTotal(_)
PaidTotal(P) ==
  IF P = {} THEN 0
  ELSE LET x == CHOOSE y \in P : TRUE IN x.amount + PaidTotal(P \ {x})

Max(a, b) == IF a >= b THEN a ELSE b

----------------------------------------------------------------------------
\* The claims on several users and projects

\* the user has a running entry on a project other than p
HasOpenElsewhere(T, u, p) ==
  \E e \in T : e.userId = u /\ e.projectId # p /\ e.endedAt = Null

\* a closed row of (u, p)
ClosedRows(T, u, p) ==
  {e \in T : e.userId = u /\ e.projectId = p /\ e.endedAt # Null}

Foreign(T, u, p) == {e \in T : e.userId # u \/ e.projectId # p}

\* the rows that belong to another user than u, or are not the row id
ForeignToRouter(T, u, id) == {e \in T : e.userId # u \/ e.id # id}

\* the identifiers a request can name: those of the rows and one of no row
NamedIds == EntryIds \cup {MaxEntries + 1}

\* C28: every start, stop, resume, update and delete issued for (user U,
\* project P) leaves unchanged every interval of a different user or a
\* different project, whether the call succeeds or fails; the calls of the
\* /time-entries router, which name a user and an interval, leave unchanged
\* every interval of a different user and every other interval.
C28_OtherScopesUntouched ==
  \A u \in Users, p \in ProjectIds :
    /\ Foreign(StartResult(timeEntries, now, nextId + 1, u, p).timeEntries, u, p) =
         Foreign(timeEntries, u, p)
    /\ \A id \in NamedIds :
         /\ Foreign(ResumeResult(timeEntries, now, u, p, id).timeEntries, u, p) =
              Foreign(timeEntries, u, p)
         /\ Foreign(DeleteResult(timeEntries, u, p, id).timeEntries, u, p) =
              Foreign(timeEntries, u, p)
         /\ ForeignToRouter(RouterDeleteResult(timeEntries, u, id).timeEntries, u, id) =
              ForeignToRouter(timeEntries, u, id)
         /\ \A body \in StopBodies :
              Foreign(StopResult(timeEntries, now, u, p, id, body).timeEntries, u, p) =
                Foreign(timeEntries, u, p)
         /\ \A body \in UpdateBodies :
              /\ Foreign(UpdateResult(timeEntries, u, p, id, body).timeEntries, u, p) =
                   Foreign(timeEntries, u, p)
              /\ ForeignToRouter(RouterUpdateResult(timeEntries, u, id, body).timeEntries,
                                 u, id) = ForeignToRouter(timeEntries, u, id)

\* C28 witness: an open interval of one user and an interval of another user
\* on another project; the first user's stop succeeds and the other row is
\* what it was.
C28_Witness ==
  \E e1 \in timeEntries, e2 \in timeEntries :
    /\ e1.userId # e2.userId /\ e1.projectId # e2.projectId
    /\ e1.endedAt = Null
    /\ LET r == StopResult(timeEntries, now, e1.userId, e1.projectId, e1.id,
                           [k \in {} |-> ""])
       IN r.status = 200 /\ e1 \notin r.timeEntries /\ e2 \in r.timeEntries

====
